---- MODULE Spec2Model ----
(***************************************************************************)
(* Model of covered.py: the tree enumerator _all_files_in_dir, the hashing *)
(* wrapper dir_contents, the comparator covered and the printing loop of   *)
(* main, run over a small static file system with symbolic links.          *)
(***************************************************************************)
EXTENDS Integers, Sequences, FiniteSets, TLC

\* ------------------------------------------------------------ bounds
\* File contents are 1..MaxContent; a file system holds at most MaxLinks
\* symbolic links.
MaxContent == 2
MaxLinks == 1

Contents == 1..MaxContent
Hashes == 0..(MaxContent + 1)
\* The content of a path that has none (a dangling link).
NoContent == 0

\* ------------------------------------------------------------ file system
\* Canonical paths are sequences of names below "/", which is <<>> and is
\* also the working directory relative arguments are taken from.
SrcDir == <<"A">>
CovDir == <<"B">>
SubDir == <<"A", "s">>
DirPaths == {<< >>, SrcDir, CovDir, SubDir}
FileSlots == {<<"A", "f">>, <<"A", "g">>, <<"A", "s", "h">>, <<"B", "f">>, <<"B", "g">>}
LinkSlots == {<<"A", "g">>, <<"A", "s", "h">>}
LinkTargets == {<< >>, SrcDir, SubDir, <<"A", "f">>}

Node(k, c, t) == [kind |-> k, content |-> c, target |-> t]
SlotOptions(s) ==
    {Node("absent", NoContent, << >>)}
    \cup {Node("file", c, << >>) : c \in Contents}
    \cup (IF s \in LinkSlots THEN {Node("link", NoContent, t) : t \in LinkTargets} ELSE {})

\* The coverage tree holds no links, and its two names are interchangeable.
SlotChoices ==
    {f \in [FileSlots -> UNION {SlotOptions(s) : s \in FileSlots}] :
        /\ \A s \in FileSlots : f[s] \in SlotOptions(s)
        /\ Cardinality({s \in FileSlots : f[s].kind = "link"}) <= MaxLinks
        /\ f[<<"B", "g">>].kind = "file" =>
               f[<<"B", "f">>].kind = "file" /\ f[<<"B", "f">>].content < f[<<"B", "g">>].content}

FileSystems ==
    {[p \in DirPaths \cup FileSlots |-> IF p \in DirPaths THEN Node("dir", NoContent, << >>) ELSE f[p]] :
        f \in SlotChoices}

\* The digest functions handed to covered(), as functions of the content (a
\* path without content has a digest too; whether a call raises instead is up
\* to StepYieldFails): one without collisions, and one under which the
\* contents 2k-1 and 2k collide.
HashFuns ==
    {[c \in Contents \cup {NoContent} |-> c + 1],
     [c \in Contents \cup {NoContent} |-> (c + 1) \div 2]}

VARIABLES
    fs,            \* the file system: canonical path -> node
    hash_fun,      \* the hash_fun argument, as a function of file content
    pc,            \* position of main
    src, covered_by, \* the two Path arguments of covered()
    visited, left, \* locals of the running _all_files_in_dir generator
    listed,        \* history: how often each directory was iterdir()'ed by it
    contents_src, contents_cov, hashes_cov, missings, \* locals of covered()
    idx,           \* position of the for loops of covered() and main()
    output         \* lines printed so far

vars == <<fs, hash_fun, pc, src, covered_by, visited, left, listed,
          contents_src, contents_cov, hashes_cov, missings, idx, output>>

\* ------------------------------------------------------------ pathlib
\* A Path keeps the form of the argument it was built from: absolute or
\* relative, then the names.
MkPath(a, parts) == [abs |-> a, parts |-> parts]
NoPath == MkPath(TRUE, << >>)

Exists(c) == c \in DOMAIN fs /\ fs[c].kind # "absent"

\* One component of Path.resolve(): entry n of canonical directory cur.
ResolveEntry(cur, n) ==
    LET e == Append(cur, n)
    IN  IF Exists(e) /\ fs[e].kind = "link" THEN fs[e].target ELSE e

RECURSIVE ResolveFrom(_, _, _)
ResolveFrom(cur, parts, i) ==
    IF i > Len(parts) THEN cur ELSE ResolveFrom(ResolveEntry(cur, parts[i]), parts, i + 1)

\* str(fle.resolve()): canonical and absolute whatever the form of fle.
Resolve(p) == ResolveFrom(<< >>, p.parts, 1)

IsDir(p) == Exists(Resolve(p)) /\ fs[Resolve(p)].kind = "dir"
IsFile(p) == Exists(Resolve(p)) /\ fs[Resolve(p)].kind = "file"
ContentOf(p) == IF IsFile(p) THEN fs[Resolve(p)].content ELSE NoContent

ChildNames(c) ==
    {q[Len(q)] : q \in {q \in DOMAIN fs : Len(q) = Len(c) + 1 /\ SubSeq(q, 1, Len(c)) = c /\ Exists(q)}}

\* d.iterdir() as a set: the children are d / name, in d's own form.
Iterdir(d) == {MkPath(d.abs, Append(d.parts, n)) : n \in ChildNames(Resolve(d))}

\* list(d.iterdir()) comes in an order the operating system picks.
Orders(S) == {o \in [1..Cardinality(S) -> S] : \A i, j \in 1..Cardinality(S) : o[i] = o[j] => i = j}

\* str(path): "/" first for an absolute path.
PathStr(p) == (IF p.abs THEN <<"/">> ELSE << >>) \o p.parts

\* ------------------------------------------------------------ the program
Init ==
    /\ fs \in FileSystems
    /\ hash_fun \in HashFuns
    /\ pc = "main"
    /\ src = NoPath
    /\ covered_by = NoPath
    /\ visited = {}
    /\ left = << >>
    /\ listed = [d \in DirPaths |-> 0]
    /\ contents_src = << >>
    /\ contents_cov = << >>
    /\ hashes_cov = {}
    /\ missings = << >>
    /\ idx = 1
    /\ output = << >>

\* main() up to the call of covered(): Path(args.src), Path(args.cov).
ParseArgs ==
    /\ pc = "main"
    /\ \E a \in BOOLEAN :
        /\ src' = MkPath(a, SrcDir)
        /\ covered_by' = MkPath(TRUE, CovDir)
    /\ pc' = "src_begin"
    /\ UNCHANGED <<fs, hash_fun, visited, left, listed, contents_src, contents_cov,
                   hashes_cov, missings, idx, output>>

Tree == IF pc \in {"src_begin", "src"} THEN src ELSE covered_by

\* visited = set(); left = list(d.iterdir())
Begin ==
    /\ pc \in {"src_begin", "cov_begin"}
    /\ visited' = {}
    /\ \E o \in Orders(Iterdir(Tree)) : left' = o
    /\ listed' = [d \in DirPaths |-> IF d = Resolve(Tree) THEN 1 ELSE 0]
    /\ pc' = IF pc = "src_begin" THEN "src" ELSE "cov"
    /\ UNCHANGED <<fs, hash_fun, src, covered_by, contents_src, contents_cov,
                   hashes_cov, missings, idx, output>>

\* Where an exception raised at position p takes main: a handler that drops
\* the tree being read and goes on comparing what it has.
RaiseSwallowed(p) == "filter"
\* No frame between the generator and main catches anything: the process ends.
Raise(p) == "aborted"

\* d.iterdir() raises: the directory is missing, no directory or unreadable.
BeginFails ==
    /\ pc \in {"src_begin", "cov_begin"}
    /\ pc' = Raise(pc)
    /\ UNCHANGED <<fs, hash_fun, src, covered_by, visited, left, listed, contents_src,
                   contents_cov, hashes_cov, missings, idx, output>>

Top(l) == l[Len(l)]
\* left[-1] read without being removed
PopPeeks(l) == l
\* left.pop() removes the last entry
Pop(l) == SubSeq(l, 1, Len(l) - 1)
\* a visited test that never hits
IsVisitedNever(s, v) == FALSE
IsVisited(s, v) == s \in v

\* if sfle in visited: continue
StepSkip ==
    /\ pc \in {"src", "cov"}
    /\ left # << >>
    /\ IsVisited(Resolve(Top(left)), visited)
    /\ left' = Pop(left)
    /\ UNCHANGED <<fs, hash_fun, pc, src, covered_by, visited, listed, contents_src,
                   contents_cov, hashes_cov, missings, idx, output>>

\* if fle.is_dir(): left += list(fle.iterdir())
StepDir ==
    /\ pc \in {"src", "cov"}
    /\ left # << >>
    /\ ~IsVisited(Resolve(Top(left)), visited)
    /\ IsDir(Top(left))
    /\ visited' = visited \cup {Resolve(Top(left))}
    /\ \E o \in Orders(Iterdir(Top(left))) : left' = Pop(left) \o o
    /\ listed' = [listed EXCEPT ![Resolve(Top(left))] = @ + 1]
    /\ UNCHANGED <<fs, hash_fun, pc, src, covered_by, contents_src, contents_cov,
                   hashes_cov, missings, idx, output>>

Yields(fle) == ~IsDir(fle)
Record(fle) == <<fle, hash_fun[ContentOf(fle)]>>

\* else: yield fle, and dir_contents appends (fle, hash_fun(fle))
StepYield ==
    /\ pc \in {"src", "cov"}
    /\ left # << >>
    /\ ~IsVisited(Resolve(Top(left)), visited)
    /\ Yields(Top(left))
    /\ visited' = visited \cup {Resolve(Top(left))}
    /\ left' = Pop(left)
    /\ IF pc = "src"
       THEN contents_src' = Append(contents_src, Record(Top(left))) /\ UNCHANGED contents_cov
       ELSE contents_cov' = Append(contents_cov, Record(Top(left))) /\ UNCHANGED contents_src
    /\ UNCHANGED <<fs, hash_fun, pc, src, covered_by, listed, hashes_cov, missings, idx, output>>

\* hash_fun(fle) raises: the file cannot be opened or read.
StepYieldFails ==
    /\ pc \in {"src", "cov"}
    /\ left # << >>
    /\ ~IsVisited(Resolve(Top(left)), visited)
    /\ Yields(Top(left))
    /\ visited' = visited \cup {Resolve(Top(left))}
    /\ left' = Pop(left)
    /\ pc' = Raise(pc)
    /\ UNCHANGED <<fs, hash_fun, src, covered_by, listed, contents_src, contents_cov,
                   hashes_cov, missings, idx, output>>

HashSet(tups) == {tups[i][2] : i \in 1..Len(tups)}

\* while left: ends; the list comprehension of dir_contents is complete.
End ==
    /\ pc \in {"src", "cov"}
    /\ left = << >>
    /\ IF pc = "src"
       THEN pc' = "cov_begin" /\ UNCHANGED <<hashes_cov, idx>>
       ELSE pc' = "filter" /\ hashes_cov' = HashSet(contents_cov) /\ idx' = 1
    /\ UNCHANGED <<fs, hash_fun, src, covered_by, visited, left, listed, contents_src,
                   contents_cov, missings, output>>

\* the membership test inverted
MissingInverted(hash_src, cov) == hash_src \in cov
\* a report that lists each missing digest once
MissingOnce(hash_src, cov) == hash_src \notin cov /\ hash_src \notin HashSet(missings)
Missing(hash_src, cov) == hash_src \notin cov

\* for fle_src, hash_src in contents_src: if hash_src not in hashes_cov: append
Filter ==
    /\ pc = "filter"
    /\ idx <= Len(contents_src)
    /\ missings' = IF Missing(contents_src[idx][2], hashes_cov)
                   THEN Append(missings, contents_src[idx])
                   ELSE missings
    /\ idx' = idx + 1
    /\ UNCHANGED <<fs, hash_fun, pc, src, covered_by, visited, left, listed, contents_src,
                   contents_cov, hashes_cov, output>>

\* return missings
Return ==
    /\ pc = "filter"
    /\ idx > Len(contents_src)
    /\ pc' = "print"
    /\ idx' = 1
    /\ UNCHANGED <<fs, hash_fun, src, covered_by, visited, left, listed, contents_src,
                   contents_cov, hashes_cov, missings, output>>

Line(missing) == <<PathStr(missing[1]), "\t", missing[2]>>

\* for missing in missings: print(...)
PrintLine ==
    /\ pc = "print"
    /\ idx <= Len(missings)
    /\ output' = Append(output, Line(missings[idx]))
    /\ idx' = idx + 1
    /\ UNCHANGED <<fs, hash_fun, pc, src, covered_by, visited, left, listed, contents_src,
                   contents_cov, hashes_cov, missings>>

Exit ==
    /\ pc = "print"
    /\ idx > Len(missings)
    /\ pc' = "done"
    /\ UNCHANGED <<fs, hash_fun, src, covered_by, visited, left, listed, contents_src,
                   contents_cov, hashes_cov, missings, idx, output>>

Next ==
    \/ ParseArgs
    \/ Begin
    \/ BeginFails
    \/ StepSkip
    \/ StepDir
    \/ StepYield
    \/ StepYieldFails
    \/ End
    \/ Filter
    \/ Return
    \/ PrintLine
    \/ Exit

Spec == Init /\ [][Next]_vars

\* Termination does not depend on what the files hold or on the digests:
\* the runs over the file systems whose files all hold content 1, under the
\* collision-free digest function.
LiveInit ==
    /\ Init
    /\ \A c \in DOMAIN hash_fun : hash_fun[c] = c + 1
    /\ \A s \in FileSlots : fs[s].kind = "file" => fs[s].content = 1

\* The program is one thread that runs until it returns or raises.
FairSpec == LiveInit /\ [][Next]_vars /\ WF_vars(Next)

\* ------------------------------------------------------------ what a tree holds
\* The canonical files of a tree, computed from the file system alone:
\* the closure of the root under "entry of a directory", links followed.
CanonOf(q) == IF Exists(q) /\ fs[q].kind = "link" THEN fs[q].target ELSE q
Entries(D) == UNION {{CanonOf(Append(d, n)) : n \in ChildNames(d)} : d \in D}
IsDirC(c) == Exists(c) /\ fs[c].kind = "dir"
IsFileC(c) == Exists(c) /\ fs[c].kind = "file"

RECURSIVE ReachDirsFrom(_, _)
ReachDirsFrom(D, n) ==
    IF n = 0 THEN D ELSE ReachDirsFrom(D \cup {e \in Entries(D) : IsDirC(e)}, n - 1)
ReachDirs(root) == ReachDirsFrom({root}, Cardinality(DirPaths))
ReachFiles(root) == {e \in Entries(ReachDirs(root)) : IsFileC(e)}

Range(q) == {q[i] : i \in 1..Len(q)}
\* A path string is absolute when it starts at "/".
IsAbsolute(s) == s # << >> /\ s[1] = "/"
Resolved(tups) == {Resolve(tups[i][1]) : i \in 1..Len(tups)}
Count(tups, h) == Cardinality({i \in 1..Len(tups) : tups[i][2] = h})
NoDuplicates(tups) ==
    \A i, j \in 1..Len(tups) : Resolve(tups[i][1]) = Resolve(tups[j][1]) => i = j
Returned == pc \in {"print", "done"}
SrcEnumerated == pc \in {"cov_begin", "cov", "filter", "print", "done"}
CovEnumerated == pc \in {"filter", "print", "done"}

RECURSIVE Uncovered(_, _)
Uncovered(tups, cov) ==
    IF tups = << >> THEN << >>
    ELSE IF tups[1][2] \in cov THEN Uncovered(Tail(tups), cov)
         ELSE <<tups[1]>> \o Uncovered(Tail(tups), cov)

\* ------------------------------------------------------------ claims

\* C1: once covered() has returned, its result is exactly the subsequence of
\* the source enumeration's (path, hash) pairs whose hash is not among the
\* hashes of the coverage enumeration, in the order the source enumeration
\* emitted them; while the loop runs the result is that of the pairs seen.
C1_ResultIsUncoveredSubsequence ==
    /\ Returned => missings = Uncovered(contents_src, HashSet(contents_cov))
    /\ pc = "filter" =>
          missings = Uncovered(SubSeq(contents_src, 1, idx - 1), HashSet(contents_cov))
C1_Witness ==
    /\ pc = "done"
    /\ Len(contents_src) = 3
    /\ Len(missings) = 2
    /\ missings[1] = contents_src[1]
    /\ missings[2] = contents_src[3]

\* C2 (as claimed): when every regular file of the source tree has a file of
\* the coverage tree with the same content, covered() returns the empty
\* sequence.
C2_CoveredByContentIsEmpty ==
    (/\ Returned
     /\ \A a \in ReachFiles(SrcDir) : \E b \in ReachFiles(CovDir) : fs[a].content = fs[b].content)
    => missings = << >>

\* C3 (as claimed): when the coverage tree holds no file and the source tree
\* holds k files, covered() returns k entries, one per file of the source
\* tree, each with the hash of that file.
C3_EmptyCoverageReportsEveryFile ==
    (Returned /\ ReachFiles(CovDir) = {}) =>
        /\ Len(missings) = Cardinality(ReachFiles(SrcDir))
        /\ Resolved(missings) = ReachFiles(SrcDir)
        /\ \A i \in 1..Len(missings) : missings[i][2] = hash_fun[ContentOf(missings[i][1])]

\* C4: each run of the enumerator ends: whenever one of the two enumerations
\* is under way, main eventually gets past it (the work list ran empty: on to
\* the coverage tree or to the comparison) or an exception ended the run,
\* also with links back to a directory or an ancestor in the tree.
C4_EnumeratorTerminates ==
    (pc \in {"src", "cov"}) ~> (pc \in {"cov_begin", "filter", "aborted"})
C4_Witness ==
    /\ pc = "cov_begin"
    /\ \E s \in LinkSlots : fs[s].kind = "link" /\ fs[s].target \in {<< >>, SrcDir, SubDir}
    /\ listed[SrcDir] = 2
    /\ Len(contents_src) >= 2

\* C5: no two emitted paths of one enumeration resolve to the same canonical
\* path, and once an enumeration has ended the regular files among the
\* resolved emitted paths are exactly the regular files reachable from the root.
C5_EachFileExactlyOnce ==
    /\ NoDuplicates(contents_src)
    /\ NoDuplicates(contents_cov)
    /\ SrcEnumerated => {c \in Resolved(contents_src) : IsFileC(c)} = ReachFiles(SrcDir)
    /\ CovEnumerated => {c \in Resolved(contents_cov) : IsFileC(c)} = ReachFiles(CovDir)
C5_Witness ==
    /\ pc = "cov_begin"
    /\ fs[<<"A", "g">>].kind = "link"
    /\ fs[<<"A", "g">>].target = << >>
    /\ Cardinality(ReachFiles(SrcDir)) = 3
    /\ Len(contents_src) = 3

\* C6 (as claimed): in one enumeration no directory, the root included, has
\* its children listed more than once.
C6_EachDirectoryListedOnce == \A d \in DirPaths : listed[d] <= 1

\* C7 (as claimed): every emitted path, every path of the report and every
\* printed line's path is absolute.
C7_PathsAreAbsolute ==
    /\ \A t \in Range(contents_src) \cup Range(contents_cov) \cup Range(missings) :
          IsAbsolute(PathStr(t[1]))
    /\ \A l \in Range(output) : IsAbsolute(l[1])

\* C8: a run that ended in an exception has printed nothing, and whenever a
\* line has been printed both enumerations have ended with every reachable
\* file of both trees emitted and hashed.
C8_NoPartialOutput ==
    /\ pc = "aborted" => output = << >>
    /\ output # << >> =>
          /\ Returned
          /\ left = << >>
          /\ ReachFiles(SrcDir) \subseteq Resolved(contents_src)
          /\ ReachFiles(CovDir) \subseteq Resolved(contents_cov)
C8_Witness ==
    /\ pc = "aborted"
    /\ Len(contents_src) >= 2
    /\ Len(contents_cov) >= 1
    /\ \E t \in Range(contents_src) : t[2] \notin HashSet(contents_cov)

\* C9: once covered() has returned, a hash that is absent from the coverage
\* hashes occurs in the result as often as in the source enumeration, each
\* time with another path.
C9_NotDeduplicated ==
    Returned =>
        /\ \A h \in Hashes : h \notin hashes_cov => Count(missings, h) = Count(contents_src, h)
        /\ \A i, j \in 1..Len(missings) : missings[i][1] = missings[j][1] => i = j
C9_Witness ==
    /\ pc = "done"
    /\ \E h \in Hashes : Count(missings, h) >= 2
    /\ \E i, j \in 1..Len(missings) :
          IsFile(missings[i][1]) /\ IsFile(missings[j][1]) /\ i # j
          /\ ContentOf(missings[i][1]) = ContentOf(missings[j][1])

\* C10 (as claimed): every path emitted and handed to the hash function is a
\* regular file.
C10_OnlyRegularFilesEmitted ==
    \A t \in Range(contents_src) \cup Range(contents_cov) : IsFile(t[1])

====
